---- MODULE Spec2Model ----
(***************************************************************************)
(* Model of calculate_grm_durations_binary.py: the binary .grm decoder,    *)
(* the Arias Intensity integrator, the 5%-95% duration extractor, the      *)
(* period-dependent pipeline, per-file analysis and the batch loop.        *)
(*                                                                         *)
(* Real numbers are exact rationals <<n, d>> (d > 0, lowest terms).  The   *)
(* factor pi of the Arias scaling is kept symbolic: an energy value e of   *)
(* the model stands for e * pi m/s.                                        *)
(***************************************************************************)
EXTENDS Integers, Sequences, FiniteSets, TLC

VARIABLES
    \* ---- decoder study (SpecDecode)
    buffer,        \* the bytes of the file handed to load_binary_grm_file
    decoded,       \* what load_binary_grm_file returned
    message,       \* the text the decoder printed ("" when it printed none)
    dpc,           \* "start" before the call, "done" after it, "processed"
    processed,     \* what process_grm_file made of the decoder's answer
    \* ---- filter designer study (SpecFilter)
    designer_args, \* f_center, fs and bandwidth_factor handed to the designer
    designed,      \* what design_bandpass_filter_detailed returned or raised
    fpc,           \* "start" before the call, "designed" or "raised" after
    \* ---- integrator and extractor study (SpecEnergy)
    time,          \* the time base handed to the integrator
    accel_g,       \* the acceleration series handed to the integrator
    energy,        \* what calculate_arias_intensity_detailed returned
    window,        \* what find_5_95_duration_detailed returned
    epc,           \* "start", "integrated", "done" or "raised"
    \* ---- period loop study (SpecAnalysis)
    period_list,   \* the periods the for loop iterates over, in order
    period_k,      \* number of loop iterations completed
    period_out,    \* what the last calculate_period_dependent_duration returned
    period_results,\* the period entries of the results dict so far
    ppc,           \* "loop" while iterating, "exit" after, "raised" on exception
    \* ---- the batch run of main (Spec)
    input_kind,    \* what args.input_path is: "file", "dir" or "missing"
    discovered,    \* the files the path or the glob yields, in glob order
    num_files,     \* args.num_files: {} for None, {k} for the integer k
    grm_files,     \* the list main iterates over
    i,             \* number of loop iterations completed
    attempted,     \* the files handed to process_grm_file so far, in order
    all_results,   \* the rows collected so far
    errors,        \* the files main reported "Error processing" for
    output,        \* the CSV file at args.output
    pc             \* "start", "loop" or "exit"

decodeVars == <<buffer, decoded, message, dpc, processed>>
filterVars == <<designer_args, designed, fpc>>
energyVars == <<time, accel_g, energy, window, epc>>
mainVars == <<input_kind, discovered, num_files, grm_files, i, attempted,
              all_results, errors, output, pc>>
periodVars == <<period_list, period_k, period_out, period_results, ppc>>
vars == <<decodeVars, filterVars, energyVars, mainVars, periodVars>>

\* ------------------------------------------------------------------------
\* Bounds of the model
\* ------------------------------------------------------------------------
MaxWords == 4          \* payload floats enumerated for the decoder study
MaxLen == 5            \* samples enumerated for the integrator study
MaxFiles == 2          \* files a directory scan yields
MaxPulseLen == 6       \* samples of the short records of the pulse study

\* ------------------------------------------------------------------------
\* Exact rational arithmetic
\* ------------------------------------------------------------------------
Abs(x) == IF x < 0 THEN -x ELSE x

RECURSIVE Gcd(_, _)
Gcd(a, b) == IF b = 0 THEN a ELSE Gcd(b, a % b)

Rat(n, d) ==
    LET g == Gcd(Abs(n), Abs(d))
        s == IF d < 0 THEN -1 ELSE 1
    IN  <<(s * n) \div g, (s * d) \div g>>

Zero == <<0, 1>>
One == <<1, 1>>
Lcm(a, b) == (a \div Gcd(a, b)) * b
RAdd(x, y) ==
    LET l == Lcm(x[2], y[2])
    IN  Rat(x[1] * (l \div x[2]) + y[1] * (l \div y[2]), l)
RNeg(x) == <<-x[1], x[2]>>
RSub(x, y) == RAdd(x, RNeg(y))
RMul(x, y) ==
    LET a == Rat(x[1], y[2])
        b == Rat(y[1], x[2])
    IN  <<a[1] * b[1], a[2] * b[2]>>
RDiv(x, y) == RMul(x, IF y[1] < 0 THEN <<-y[2], -y[1]>> ELSE <<y[2], y[1]>>)
RLe(x, y) == RSub(x, y)[1] <= 0
RLt(x, y) == RSub(x, y)[1] < 0
RAbs(x) == <<Abs(x[1]), x[2]>>

\* The (None, None) pair load_binary_grm_file returns on failure; a record it
\* returns on success has is_none = FALSE.
NoRecord == [is_none |-> TRUE, time |-> <<>>, accel_g |-> <<>>]

\* ------------------------------------------------------------------------
\* The binary container and load_binary_grm_file
\* ------------------------------------------------------------------------
\* A file is its header bytes (at most the first 56 bytes of the file), then
\* the whole 4-byte floats that follow (each given by the value it holds, in
\* cm/s^2) and `tail` bytes of an incomplete float at the end.
HeaderSize == 56
num_components == 2
sizeof_float == 4

\* struct.unpack('i', b): four bytes, little-endian, two's complement.
unpack_i(b) ==
    b[1] + 256 * b[2] + 65536 * b[3]
      + 16777216 * (IF b[4] >= 128 THEN b[4] - 256 ELSE b[4])

\* struct.pack('i', nt) for 0 <= nt < 2^31, the inverse of unpack_i there
pack_i(nt) ==
    <<nt % 256, (nt \div 256) % 256, (nt \div 65536) % 256,
      (nt \div 16777216) % 256>>

\* A header of len bytes: zero everywhere but in the nt field, bytes 40-44
MakeHeader(len, field) ==
    [k \in 1..len |-> IF k \in 41..44 THEN field[k - 40] ELSE 0]

SeqsUpTo(S, n) == UNION {[1..k -> S] : k \in 0..n}

\* fp.read(n) on the payload: n < -1 raises ValueError; otherwise at most n
\* bytes, fewer when the file ends first.
read_negative_reads_all(n) == FALSE
read_raises(n) == n < -1
read_len(buf, n) ==
    LET avail == sizeof_float * Len(buf.words) + buf.tail
    IN  IF n < avail THEN n ELSE avail

\* The exception raised inside the try block of load_binary_grm_file, or ""
\* when it runs to the return statement.
\* len(header) < 56
header_too_short_nt_only(header) == Len(header) < 44
header_too_short(header) == Len(header) < HeaderSize

\* data_size = num_components * sizeof_float * nt
data_size_one_component(nt) == sizeof_float * nt
data_size_of(nt) == num_components * sizeof_float * nt

\* The exception raised inside the try block of load_binary_grm_file, or ""
\* when it runs to the return statement.
load_exception(buf) ==
    IF ~buf.exists THEN "FileNotFoundError"
    ELSE IF header_too_short(buf.header) THEN "Invalid header size"
    ELSE LET nt == unpack_i(SubSeq(buf.header, 41, 44))
             data_size == data_size_of(nt)
         IN  IF read_raises(data_size)
                 THEN "read length must be non-negative or -1"
             ELSE IF read_len(buf, data_size) < data_size
                 THEN "Insufficient data"
             ELSE ""

\* data[0, :] of the (num_components, nt) reshape of the floats read
component0_interleaved(buf, nt) == [k \in 1..nt |-> buf.words[2 * k - 1]]
component1(buf, nt) == SubSeq(buf.words, nt + 1, 2 * nt)
component0(buf, nt) == SubSeq(buf.words, 1, nt)

\* accel_cms2 / 981.0
to_g(accel_cms2) == [k \in 1..Len(accel_cms2) |-> Rat(accel_cms2[k], 981)]

\* np.arange(nt) * dt with dt = 0.01
time_base(nt) == [k \in 1..nt |-> Rat(k - 1, 100)]

load_binary_grm_file(buf) ==
    IF load_exception(buf) # "" THEN NoRecord
    ELSE LET nt == unpack_i(SubSeq(buf.header, 41, 44))
         IN  [is_none |-> FALSE, time |-> time_base(nt),
              accel_g |-> to_g(component0(buf, nt))]

\* ------------------------------------------------------------------------
\* calculate_arias_intensity_detailed
\* ------------------------------------------------------------------------
g == Rat(981, 100)     \* 9.81 m/s^2

\* d * (y[1:] + y[:-1]) / 2 at the interval ending at index k
trapezoid_area(y, x, k) ==
    RMul(RMul(RSub(x[k], x[k - 1]), RAdd(y[k], y[k - 1])), <<1, 2>>)

\* np.cumsum of the areas of the intervals ending at lo..hi, added to base
RECURSIVE cumsum(_, _, _, _, _)
cumsum_join(y, x, mid, hi, left) ==
    left \o cumsum(y, x, mid + 1, hi, left[Len(left)])

cumsum(y, x, lo, hi, base) ==
    IF lo > hi THEN <<>>
    ELSE IF lo = hi THEN <<RAdd(base, trapezoid_area(y, x, lo))>>
    ELSE cumsum_join(y, x, (lo + hi) \div 2, hi,
                     cumsum(y, x, lo, (lo + hi) \div 2, base))

\* scipy's cumulative_trapezoid(y, x, initial=0), the first k values
cumulative_trapezoid(y, x, k) == <<Zero>> \o cumsum(y, x, 2, k, Zero)

\* np.max(np.abs(a)) of a non-empty series
max_abs(a) ==
    CHOOSE m \in {RAbs(a[k]) : k \in 1..Len(a)} :
        \A k \in 1..Len(a) : RLe(RAbs(a[k]), m)

\* 1.0 / np.mean(np.diff(t)): nan for a single sample, inf when all the times
\* are equal (numpy warns and does not raise)
sampling_rate(t) ==
    IF Len(t) < 2 THEN [kind |-> "nan", value |-> Zero]
    ELSE IF t[Len(t)] = t[1] THEN [kind |-> "inf", value |-> Zero]
    ELSE [kind |-> "finite",
          value |-> RDiv(<<Len(t) - 1, 1>>, RSub(t[Len(t)], t[1]))]

\* accel_ms2**2
not_squared(x) == x
squared(x) == RMul(x, x)

NoEnergy == [exc |-> "not called", arias_intensity |-> <<>>]

\* The scaling factor pi / (2 * g), without its factor pi
scaling_without_half == RDiv(One, g)
scaling_factor == RDiv(One, RMul(<<2, 1>>, g))

\* arias_intensity = (pi / (2 * g)) * cumulative_integral, steps 1 to 4
arias_curve(t, a) ==
    LET accel_ms2 == [k \in 1..Len(a) |-> RMul(a[k], g)]
        accel_squared == [k \in 1..Len(a) |-> squared(accel_ms2[k])]
        cumulative_integral == cumulative_trapezoid(accel_squared, t, Len(a))
    IN  [k \in 1..Len(a) |-> RMul(scaling_factor, cumulative_integral[k])]

\* The pair (arias_intensity, details) returned, as one record
arias_details(t, a, arias) ==
    [exc |-> "",
     arias_intensity |-> arias,
     max_acceleration_g |-> max_abs(a),
     total_arias_intensity |-> arias[Len(a)],
     duration |-> RSub(t[Len(t)], t[1]),
     num_points |-> Len(t),
     sampling_rate |-> sampling_rate(t)]

calculate_arias_intensity_detailed(t, a) ==
    IF Len(a) = 0
        THEN [exc |-> "ValueError", arias_intensity |-> <<>>]
    ELSE arias_details(t, a, arias_curve(t, a))

\* ------------------------------------------------------------------------
\* find_5_95_duration_detailed
\* ------------------------------------------------------------------------
\* np.interp(x, xp, fp) for non-decreasing xp: below xp[0] the left value,
\* above xp[-1] the right value, otherwise with j the LAST index such that
\* xp[j] <= x: fp[j] when j is the last index or xp[j] = x, and the point
\* of the segment j, j+1 otherwise.
RECURSIVE bisect(_, _, _, _)
bisect_step(key, arr, lo, hi, mid) ==
    IF RLe(arr[mid], key) THEN bisect(key, arr, mid, hi)
    ELSE bisect(key, arr, lo, mid - 1)

\* The last index in lo..hi whose entry is <= key, given arr[lo] <= key
bisect(key, arr, lo, hi) ==
    IF lo = hi THEN lo
    ELSE bisect_step(key, arr, lo, hi, (lo + hi + 1) \div 2)

binary_search(key, arr, k) == bisect(key, arr, 1, k)

interp_at(x, xp, fp, j) ==
    IF j = Len(xp) THEN fp[j]
    ELSE IF xp[j] = x THEN fp[j]
    ELSE RAdd(RMul(RDiv(RSub(fp[j + 1], fp[j]), RSub(xp[j + 1], xp[j])),
                   RSub(x, xp[j])),
              fp[j])

interp_swapped(x, xp, fp) ==
    IF RLt(fp[Len(fp)], x) THEN xp[Len(fp)]
    ELSE IF RLt(x, fp[1]) THEN xp[1]
    ELSE interp_at(x, fp, xp, binary_search(x, fp, Len(fp)))
interp(x, xp, fp) ==
    IF RLt(xp[Len(xp)], x) THEN fp[Len(xp)]
    ELSE IF RLt(x, xp[1]) THEN fp[1]
    ELSE interp_at(x, xp, fp, binary_search(x, xp, Len(xp)))

p05 == <<1, 20>>
p95 == <<19, 20>>

EmptyDict == <<>>
NoWindow == [exc |-> "not called"]

\* duration_5_95 = t95 - t5
duration_swapped(t5, t95) == RSub(t5, t95)
duration_of(t5, t95) == RSub(t95, t5)

\* return 0.0, 0.0, 0.0, {}
DegenerateRaises ==
    [exc |-> "ValueError", duration_5_95 |-> Zero, t5 |-> Zero, t95 |-> Zero,
     details |-> EmptyDict]
DegenerateWindow ==
    [exc |-> "", duration_5_95 |-> Zero, t5 |-> Zero, t95 |-> Zero,
     details |-> EmptyDict]

\* The tuple returned after the interpolation, as one record
window_record(total_arias, t5, t95) ==
    [exc |-> "", duration_5_95 |-> duration_of(t5, t95),
     t5 |-> t5, t95 |-> t95,
     details |-> [energy_at_t5 |-> RMul(p05, total_arias),
                  energy_at_t95 |-> RMul(p95, total_arias),
                  percent_before_t5 |-> 5,
                  percent_after_t95 |-> 5,
                  percent_in_duration |-> 90]]

\* normalized_arias = arias_intensity / total_arias
normalize(arias, total_arias) ==
    [k \in 1..Len(arias) |-> RDiv(arias[k], total_arias)]

\* From the np.where calls to the return
window_of_normalized(t, total_arias, normalized_arias) ==
    IF \/ {k \in 1..Len(t) : RLe(p05, normalized_arias[k])} = {}
       \/ {k \in 1..Len(t) : RLe(p95, normalized_arias[k])} = {}
        THEN DegenerateWindow
    ELSE window_record(total_arias,
                       interp(p05, normalized_arias, t),
                       interp(p95, normalized_arias, t))

find_5_95_duration_detailed(t, arias) ==
    IF arias[Len(arias)] = Zero THEN DegenerateWindow
    ELSE window_of_normalized(t, arias[Len(arias)],
                              normalize(arias, arias[Len(arias)]))

\* ------------------------------------------------------------------------
\* Decoder study: every buffer of the bounded family is decoded once
\* ------------------------------------------------------------------------
SampleValues == {0, 100, -300}
HeaderLens == {0, 40, 44, 55, 56}
NtFields ==
    {<<b0, b1, b2, b3>> : b0 \in {0, 1, 2, 3, 255}, b1 \in {0, 1, 255},
                          b2 \in {0, 255}, b3 \in {0, 255}}
TailLens == {0, 3}

Buffers ==
    {[exists |-> TRUE, header |-> MakeHeader(hl, f), words |-> <<>>, tail |-> 0] :
        hl \in HeaderLens \ {HeaderSize}, f \in NtFields}
    \cup
    {[exists |-> TRUE, header |-> MakeHeader(HeaderSize, f), words |-> w, tail |-> t] :
        f \in NtFields, w \in SeqsUpTo(SampleValues, MaxWords), t \in TailLens}
    \cup
    {[exists |-> FALSE, header |-> <<>>, words |-> <<>>, tail |-> 0]}

\* process_grm_file has not been called
NotProcessed == [exc |-> "not called", is_none |-> TRUE, results |-> <<>>]

\* The designer has not been called
NotDesigned == [exc |-> "not called"]

DecodeIdle ==
    /\ buffer = [exists |-> FALSE, header |-> <<>>, words |-> <<>>, tail |-> 0]
    /\ decoded = NoRecord
    /\ message = ""
    /\ dpc = "idle"
    /\ processed = NotProcessed

MainIdle ==
    /\ input_kind = "missing"
    /\ discovered = <<>>
    /\ num_files = {}
    /\ grm_files = <<>>
    /\ i = 0
    /\ attempted = <<>>
    /\ all_results = <<>>
    /\ errors = <<>>
    /\ output = [state |-> "absent", rows |-> <<>>]
    /\ pc = "idle"

FilterIdle ==
    /\ designer_args = [f_center |-> Zero, fs |-> [kind |-> "nan", value |-> Zero],
                        bandwidth_factor |-> Zero]
    /\ designed = NotDesigned
    /\ fpc = "idle"

EnergyIdle ==
    /\ time = <<>>
    /\ accel_g = <<>>
    /\ energy = NoEnergy
    /\ window = NoWindow
    /\ epc = "idle"

\* No call of the period pipeline has been made
NotCalled == [exc |-> "not called"]

PeriodIdle ==
    /\ period_list = <<>>
    /\ period_k = 0
    /\ period_out = NotCalled
    /\ period_results = EmptyDict
    /\ ppc = "idle"

InitDecode ==
    /\ buffer \in Buffers
    /\ decoded = NoRecord
    /\ message = ""
    /\ dpc = "start"
    /\ processed = NotProcessed
    /\ EnergyIdle
    /\ MainIdle
    /\ FilterIdle
    /\ PeriodIdle

Decode ==
    /\ dpc = "start"
    /\ decoded' = load_binary_grm_file(buffer)
    /\ message' = load_exception(buffer)
    /\ dpc' = "done"
    /\ UNCHANGED <<buffer, processed, energyVars, mainVars, filterVars, periodVars>>


\* ------------------------------------------------------------------------
\* Integrator and extractor study: every bounded series is integrated, then
\* the duration window is extracted from the curve
\* ------------------------------------------------------------------------
TimeSteps == {0, 1, 2}     \* spacings of the time base, in hundredths of s

RECURSIVE time_from_steps(_, _)
time_from_steps(steps, k) ==
    IF k = 1 THEN <<Zero>>
    ELSE LET prev == time_from_steps(steps, k - 1)
         IN  Append(prev, RAdd(prev[k - 1], Rat(steps[k - 1], 100)))

InitEnergy ==
    /\ \E n \in 0..MaxLen :
         /\ accel_g \in {to_g(w) : w \in [1..n -> SampleValues]}
         /\ time \in IF n = 0 THEN {<<>>}
                     ELSE {time_from_steps(s, n) : s \in [1..(n - 1) -> TimeSteps]}
    /\ energy = NoEnergy
    /\ window = NoWindow
    /\ epc = "start"
    /\ DecodeIdle
    /\ MainIdle
    /\ FilterIdle
    /\ PeriodIdle

Integrate_in_place ==
    /\ epc = "start"
    /\ energy' = calculate_arias_intensity_detailed(time, accel_g)
    /\ accel_g' = [k \in 1..Len(accel_g) |-> RMul(accel_g[k], g)]
    /\ epc' = IF energy'.exc = "" THEN "integrated" ELSE "raised"
    /\ UNCHANGED <<time, window, decodeVars, mainVars, filterVars, periodVars>>
Integrate ==
    /\ epc = "start"
    /\ energy' = calculate_arias_intensity_detailed(time, accel_g)
    /\ epc' = IF energy'.exc = "" THEN "integrated" ELSE "raised"
    /\ UNCHANGED <<time, accel_g, window, decodeVars, mainVars, filterVars, periodVars>>

Extract ==
    /\ epc = "integrated"
    /\ window' = find_5_95_duration_detailed(time, energy.arias_intensity)
    /\ epc' = "done"
    /\ UNCHANGED <<time, accel_g, energy, decodeVars, mainVars, filterVars, periodVars>>

NextEnergy == Integrate \/ Extract

SpecEnergy == InitEnergy /\ [][NextEnergy]_vars

\* ------------------------------------------------------------------------
\* Pulse study: records sampled at 100 Hz that are 1 g on the sample indices
\* from..to (counted from 0) and 0 elsewhere, integrated and then windowed
\* ------------------------------------------------------------------------
PulseRecord(nt, from, to) ==
    [time |-> time_base(nt),
     accel_g |-> to_g([k \in 1..nt |-> IF k - 1 \in from..to THEN 981 ELSE 0])]

PulseRecords ==
    {PulseRecord(nt, from, to) :
        nt \in 1..MaxPulseLen, from \in 0..(MaxPulseLen - 1),
        to \in 0..(MaxPulseLen - 1)}
    \cup {PulseRecord(1000, 450, 550)}

InitPulse ==
    /\ \E rec \in PulseRecords :
         /\ time = rec.time
         /\ accel_g = rec.accel_g
    /\ energy = NoEnergy
    /\ window = NoWindow
    /\ epc = "start"
    /\ DecodeIdle
    /\ MainIdle
    /\ FilterIdle
    /\ PeriodIdle

SpecPulse == InitPulse /\ [][NextEnergy]_vars

\* ------------------------------------------------------------------------
\* design_bandpass_filter_detailed
\* ------------------------------------------------------------------------
order == 4
default_bandwidth_factor == <<1, 5>>

RMin(x, y) == IF RLt(y, x) THEN y ELSE x
no_floor(x, y) == x
RMax(x, y) == IF RLt(x, y) THEN y ELSE x

\* signal.butter(order, [f_low, f_high], btype='band', fs=fs) raises
\* ValueError unless 0 < f_low < f_high < fs / 2
butter_no_order_check(f_low, f_high, fs) ==
    ~(/\ RLt(Zero, f_low)
      /\ RLt(Zero, f_high)
      /\ RLt(f_low, RDiv(fs, <<2, 1>>))
      /\ RLt(f_high, RDiv(fs, <<2, 1>>)))
butter_allows_equal(f_low, f_high, fs) ==
    ~(/\ RLt(Zero, f_low)
      /\ RLe(f_low, f_high)
      /\ RLt(f_high, RDiv(fs, <<2, 1>>)))
butter_raises(f_low, f_high, fs) ==
    ~(/\ RLt(Zero, f_low)
      /\ RLt(f_low, f_high)
      /\ RLt(f_high, RDiv(fs, <<2, 1>>)))

\* fs_hz is sampling_rate's value; a nan or infinite fs makes butter raise
\* From the butter call to the return
filter_record(center, fs_value, bandwidth_factor, f_low, f_high) ==
    IF butter_raises(f_low, f_high, fs_value) THEN [exc |-> "ValueError"]
    ELSE [exc |-> "",
          order |-> order,
          center_freq_hz |-> center,
          low_freq_hz |-> f_low,
          high_freq_hz |-> f_high,
          bandwidth_hz |-> RSub(f_high, f_low),
          relative_bandwidth |-> RMul(bandwidth_factor, <<2, 1>>)]

\* fs_hz is sampling_rate's value; a nan or infinite fs makes butter raise
design_bandpass_filter_detailed(center, fs_hz, bandwidth_factor) ==
    IF fs_hz.kind # "finite" THEN [exc |-> "ValueError"]
    ELSE filter_record(
             center, fs_hz.value, bandwidth_factor,
             RMax(RMul(center, RSub(One, bandwidth_factor)), <<1, 100>>),
             RMin(RMul(center, RAdd(One, bandwidth_factor)),
                  RMul(RDiv(fs_hz.value, <<2, 1>>), Rat(95, 100))))

\* ------------------------------------------------------------------------
\* Filter designer study: the designer is called once on every combination
\* of the arguments below; bandwidth_factor {} is the argument left out
\* ------------------------------------------------------------------------
CenterFrequencies ==
    {Zero, <<1, 200>>, <<1, 100>>, <<1, 3>>, <<1, 2>>, One, <<2, 1>>, <<5, 1>>,
     <<10, 1>>, <<60, 1>>}
SamplingFrequencies ==
    {[kind |-> "finite", value |-> <<f, 1>>] : f \in {1, 20, 50, 100}}
    \cup {[kind |-> "nan", value |-> Zero], [kind |-> "inf", value |-> Zero]}
BandwidthFactors ==
    {{}} \cup {{b} : b \in {Zero, <<1, 5>>, <<1, 2>>, One, <<6, 5>>}}

\* The value of the parameter bandwidth_factor=0.2
bandwidth_of(arg) ==
    IF arg = {} THEN default_bandwidth_factor ELSE CHOOSE b \in arg : TRUE

InitFilter ==
    /\ designer_args \in [f_center : CenterFrequencies,
                          fs : SamplingFrequencies,
                          bandwidth_factor : BandwidthFactors]
    /\ designed = NotDesigned
    /\ fpc = "start"
    /\ DecodeIdle
    /\ EnergyIdle
    /\ MainIdle
    /\ PeriodIdle

DesignFilter ==
    /\ fpc = "start"
    /\ designed' = design_bandpass_filter_detailed(
                       designer_args.f_center, designer_args.fs,
                       bandwidth_of(designer_args.bandwidth_factor))
    /\ fpc' = IF designed'.exc = "" THEN "designed" ELSE "raised"
    /\ UNCHANGED <<designer_args, decodeVars, energyVars, mainVars, periodVars>>

NextFilter == DesignFilter

SpecFilter == InitFilter /\ [][NextFilter]_vars

\* ------------------------------------------------------------------------
\* calculate_period_dependent_duration
\* ------------------------------------------------------------------------
\* signal.sosfiltfilt pads by 3 * (2 * n_sections + 1) samples, n_sections =
\* order for a band filter, and raises ValueError unless the input is longer.
sosfiltfilt_padlen == 3 * (2 * order + 1)
sosfiltfilt_raises(x) == Len(x) <= sosfiltfilt_padlen

\* The numeric response of the Butterworth filter is outside the model.  The
\* filtered series keeps what the code relies on: it has the input's length,
\* it is a function of the band and the input alone, and it is a new series
\* whose shape differs from the input's.  A band filter rejects the constant
\* part of its input: the filtered series is the input's first difference
\* scaled by a gain in (0, 1) that differs from band to band.
band_gain(filter_info) ==
    RDiv(filter_info.low_freq_hz, RAdd(filter_info.low_freq_hz, One))
differenced(x, k) == IF k = 1 THEN Zero ELSE RSub(x[k], x[k - 1])
sosfiltfilt(filter_info, x) ==
    [k \in 1..Len(x) |-> RMul(band_gain(filter_info), differenced(x, k))]

\* The tuple returned, as one record
period_record(w, filtered_arias, filter_info) ==
    [exc |-> "",
     duration_5_95 |-> w.duration_5_95,
     t5 |-> w.t5,
     t95 |-> w.t95,
     arias_f |-> filtered_arias[Len(filtered_arias)],
     filter_info |-> filter_info]

\* The two calls on the filtered signal
period_of_filtered(t, filtered_arias, filter_info) ==
    period_record(find_5_95_duration_detailed(t, filtered_arias),
                  filtered_arias, filter_info)

\* From the sosfiltfilt call on
period_with_filter_unfiltered_window(t, a, filter_info) ==
    IF filter_info.exc # "" THEN [exc |-> filter_info.exc]
    ELSE IF sosfiltfilt_raises(a) THEN [exc |-> "ValueError"]
    ELSE period_record(
             find_5_95_duration_detailed(
                 t, calculate_arias_intensity_detailed(t, a).arias_intensity),
             calculate_arias_intensity_detailed(
                 t, sosfiltfilt(filter_info, a)).arias_intensity,
             filter_info)
period_with_filter(t, a, filter_info) ==
    IF filter_info.exc # "" THEN [exc |-> filter_info.exc]
    ELSE IF sosfiltfilt_raises(a) THEN [exc |-> "ValueError"]
    ELSE period_of_filtered(
             t,
             calculate_arias_intensity_detailed(
                 t, sosfiltfilt(filter_info, a)).arias_intensity,
             filter_info)

calculate_period_dependent_duration_first_dt(t, a, period) ==
    period_with_filter(
        t, a,
        design_bandpass_filter_detailed(
            RDiv(One, period),
            IF Len(t) < 2 THEN [kind |-> "nan", value |-> Zero]
            ELSE IF t[2] = t[1] THEN [kind |-> "inf", value |-> Zero]
            ELSE [kind |-> "finite", value |-> RDiv(One, RSub(t[2], t[1]))],
            default_bandwidth_factor))
calculate_period_dependent_duration(t, a, period) ==
    period_with_filter(
        t, a,
        design_bandpass_filter_detailed(RDiv(One, period), sampling_rate(t),
                                        default_bandwidth_factor))

\* ------------------------------------------------------------------------
\* process_grm_file
\* ------------------------------------------------------------------------
periods == <<<<1, 10>>, <<1, 5>>, <<1, 2>>, <<1, 1>>, <<2, 1>>, <<3, 1>>>>

\* f'{T:.1f}': T rounded to one decimal (half to even)
format_0f(T) ==
    LET q == T[1] \div T[2]
        r == T[1] % T[2]
    IN  ToString(IF 2 * r > T[2] \/ (2 * r = T[2] /\ q % 2 = 1)
                     THEN q + 1 ELSE q)
format_1f(T) ==
    LET n == 10 * T[1]
        q == n \div T[2]
        r == n % T[2]
        tenths == IF 2 * r > T[2] \/ (2 * r = T[2] /\ q % 2 = 1)
                      THEN q + 1 ELSE q
    IN  ToString(tenths \div 10) \o "." \o ToString(tenths % 10)

\* os.path.basename of a path dir/base
basename(filename) == filename.base

\* The four assignments of one loop iteration: a key already present is
\* overwritten.
period_fields_shared_key(T, r) ==
    ("duration_5_95_Ts" :> r.duration_5_95)
    @@ ("t5_Ts" :> r.t5)
    @@ ("t95_Ts" :> r.t95)
    @@ ("arias_filtered_T" :> r.arias_f)
period_fields(T, r) ==
    (("duration_5_95_T" \o format_1f(T) \o "s") :> r.duration_5_95)
    @@ (("t5_T" \o format_1f(T) \o "s") :> r.t5)
    @@ (("t95_T" \o format_1f(T) \o "s") :> r.t95)
    @@ (("arias_filtered_T" \o format_1f(T)) :> r.arias_f)

\* What process_grm_file returns ([is_none |-> TRUE] for None) or the
\* exception it raises (exc # "").
Raises(e) == [exc |-> e, is_none |-> TRUE, results |-> EmptyDict]

\* One iteration of the for loop: the call, then the four assignments
period_step(T, r, results) ==
    IF r.exc # "" THEN Raises(r.exc)
    ELSE [exc |-> "", is_none |-> FALSE,
          results |-> period_fields(T, r) @@ results]

\* The for loop over periods from its k-th iteration on
RECURSIVE period_loop(_, _, _, _)
period_loop(t, a, k, out) ==
    IF k > Len(periods) \/ out.exc # "" THEN out
    ELSE period_loop(
             t, a, k + 1,
             period_step(periods[k],
                         calculate_period_dependent_duration(t, a, periods[k]),
                         out.results))

\* From the print of the period-independent results on
process_analysed_ms2(file, rec, en, w) ==
    IF w.exc # "" THEN Raises(w.exc)
    ELSE IF "percent_in_duration" \notin DOMAIN w.details
        THEN Raises("KeyError")
    ELSE period_loop(
             rec.time, rec.accel_g, 1,
             [exc |-> "", is_none |-> FALSE,
              results |-> [filename |-> basename(file.filename),
                           peak_accel_g |-> RMul(en.max_acceleration_g, g),
                           total_duration_s |-> en.duration,
                           arias_total_ms |-> en.total_arias_intensity,
                           duration_5_95_unfiltered_s |-> w.duration_5_95,
                           t5_unfiltered_s |-> w.t5,
                           t95_unfiltered_s |-> w.t95]])
process_analysed(file, rec, en, w) ==
    IF w.exc # "" THEN Raises(w.exc)
    ELSE IF "percent_in_duration" \notin DOMAIN w.details
        THEN Raises("KeyError")
    ELSE period_loop(
             rec.time, rec.accel_g, 1,
             [exc |-> "", is_none |-> FALSE,
              results |-> [filename |-> basename(file.filename),
                           peak_accel_g |-> en.max_acceleration_g,
                           total_duration_s |-> en.duration,
                           arias_total_ms |-> en.total_arias_intensity,
                           duration_5_95_unfiltered_s |-> w.duration_5_95,
                           t5_unfiltered_s |-> w.t5,
                           t95_unfiltered_s |-> w.t95]])

\* The two calls of the period-independent part
process_integrated(file, rec, en) ==
    process_analysed(file, rec, en,
                     find_5_95_duration_detailed(rec.time, en.arias_intensity))

\* After the load: time[-1] raises IndexError on an empty record
process_loaded_unchecked(file, rec) ==
    IF rec.is_none THEN Raises("TypeError")
    ELSE IF Len(rec.time) = 0 THEN Raises("IndexError")
    ELSE process_integrated(
             file, rec,
             calculate_arias_intensity_detailed(rec.time, rec.accel_g))
process_loaded(file, rec) ==
    IF rec.is_none THEN Raises("")
    ELSE IF Len(rec.time) = 0 THEN Raises("IndexError")
    ELSE process_integrated(
             file, rec,
             calculate_arias_intensity_detailed(rec.time, rec.accel_g))

process_grm_file(file) ==
    process_loaded(file, load_binary_grm_file(file.content))

\* Decoder study, second step: process_grm_file goes on from line 253 with
\* the decoder's answer for the buffer
StudyFile ==
    [filename |-> [dir |-> "study", base |-> "x_bb.grm"], content |-> buffer]

Process ==
    /\ dpc = "done"
    /\ processed' = process_loaded(StudyFile, decoded)
    /\ dpc' = "processed"
    /\ UNCHANGED <<buffer, decoded, message, energyVars, mainVars, filterVars, periodVars>>

NextDecode == Decode \/ Process

SpecDecode == InitDecode /\ [][NextDecode]_vars

\* ------------------------------------------------------------------------
\* main
\* ------------------------------------------------------------------------
\* grm_files[:k]
slice_to(files, k) ==
    LET n == Len(files)
        stop == IF k < 0 THEN (IF n + k < 0 THEN 0 ELSE n + k)
                ELSE (IF k > n THEN n ELSE k)
    IN  SubSeq(files, 1, stop)

\* if args.num_files: grm_files = grm_files[:args.num_files]
limit_files(files, nf) ==
    IF \E k \in nf : k # 0
        THEN slice_to(files, CHOOSE k \in nf : TRUE)
    ELSE files

\* The loop index after an exception of process_grm_file: the except clause
\* prints and continues with the next file.
abort_after_exception(idx, n) == n
next_after_exception(idx, n) == idx + 1

\* lines 319-340: find the files, apply the limit
FindFiles ==
    /\ pc = "start"
    /\ IF input_kind = "missing" \/ discovered = <<>>
           THEN /\ pc' = "exit"
                /\ UNCHANGED grm_files
       ELSE /\ grm_files' = limit_files(discovered, num_files)
            /\ pc' = "loop"
    /\ UNCHANGED <<input_kind, discovered, num_files, i, attempted, all_results,
                   errors, output, decodeVars, energyVars, filterVars, periodVars>>

\* The body of the try statement and its except clause, r being what
\* process_grm_file returned or raised
collect_prepend(grm_file, r) ==
    /\ attempted' = Append(attempted, grm_file)
    /\ IF r.exc # ""
           THEN /\ errors' = Append(errors, grm_file.filename)
                /\ i' = next_after_exception(i, Len(grm_files))
                /\ UNCHANGED all_results
       ELSE /\ all_results' = IF ~r.is_none /\ DOMAIN r.results # {}
                                  THEN <<r.results>> \o all_results
                              ELSE all_results
            /\ i' = i + 1
            /\ UNCHANGED errors
collect_stale_dict(grm_file, r) ==
    /\ attempted' = Append(attempted, grm_file)
    /\ IF r.exc # ""
           THEN /\ errors' = Append(errors, grm_file.filename)
                /\ i' = next_after_exception(i, Len(grm_files))
                /\ UNCHANGED all_results
       ELSE /\ all_results' =
                  IF ~r.is_none /\ DOMAIN r.results # {}
                      THEN Append(all_results,
                                  IF all_results = <<>> THEN r.results
                                  ELSE all_results[Len(all_results)] @@ r.results)
                  ELSE all_results
            /\ i' = i + 1
            /\ UNCHANGED errors
collect(grm_file, r) ==
    /\ attempted' = Append(attempted, grm_file)
    /\ IF r.exc # ""
           THEN /\ errors' = Append(errors, grm_file.filename)
                /\ i' = next_after_exception(i, Len(grm_files))
                /\ UNCHANGED all_results
       ELSE /\ all_results' = IF ~r.is_none /\ DOMAIN r.results # {}
                                  THEN Append(all_results, r.results)
                              ELSE all_results
            /\ i' = i + 1
            /\ UNCHANGED errors

\* lines 344-354: one iteration of the loop over grm_files
ProcessNext ==
    /\ pc = "loop"
    /\ i < Len(grm_files)
    /\ collect(grm_files[i + 1], process_grm_file(grm_files[i + 1]))
    /\ UNCHANGED <<input_kind, discovered, num_files, grm_files, output, pc,
                   decodeVars, energyVars, filterVars, periodVars>>

\* lines 356-359: write the CSV when there is a row
SaveResults_always ==
    /\ pc = "loop"
    /\ i >= Len(grm_files)
    /\ output' = [state |-> "written", rows |-> all_results]
    /\ pc' = "exit"
    /\ UNCHANGED <<input_kind, discovered, num_files, grm_files, i, attempted,
                   all_results, errors, decodeVars, energyVars, filterVars, periodVars>>
SaveResults ==
    /\ pc = "loop"
    /\ i >= Len(grm_files)
    /\ output' = IF all_results # <<>>
                     THEN [state |-> "written", rows |-> all_results]
                 ELSE output
    /\ pc' = "exit"
    /\ UNCHANGED <<input_kind, discovered, num_files, grm_files, i, attempted,
                   all_results, errors, decodeVars, energyVars, filterVars, periodVars>>

\* ------------------------------------------------------------------------
\* The batch runs of the model
\* ------------------------------------------------------------------------
LongNt == sosfiltfilt_padlen + 1

Header(nt) == MakeHeader(HeaderSize, pack_i(nt))
Pulse(nt, from, to, v) == [k \in 1..nt |-> IF k \in from..to THEN v ELSE 0]
Zeros(nt) == [k \in 1..nt |-> 0]
File(dir, base, header, words) ==
    [filename |-> [dir |-> dir, base |-> base],
     content |-> [exists |-> TRUE, header |-> header, words |-> words, tail |-> 0]]

PulseFile == File("run1", "a_bb.grm", Header(LongNt),
                  Pulse(LongNt, 10, 14, 100) \o Zeros(LongNt))
OtherPulseFile == File("run2", "a_bb.grm", Header(LongNt),
                       Pulse(LongNt, 5, 20, -300) \o Pulse(LongNt, 1, 3, 100))
ZeroFile == File("run1", "b_bb.grm", Header(LongNt), Zeros(2 * LongNt))
ShortHeaderFile == File("run1", "c_bb.grm", MakeHeader(40, pack_i(0)), <<>>)
TruncatedFile == File("run1", "d_bb.grm", Header(LongNt),
                      Pulse(LongNt, 10, 14, 100))
EmptyRecordFile == File("run1", "e_bb.grm", Header(0), <<>>)
TinyFile == File("run1", "f_bb.grm", Header(3), <<100, -300, 0, 0, 0, 0>>)

FileSet == {PulseFile, OtherPulseFile, ZeroFile, ShortHeaderFile, TruncatedFile,
            EmptyRecordFile, TinyFile}

DistinctSeqs(S, n) ==
    {q \in SeqsUpTo(S, n) : \A a, b \in 1..Len(q) : a # b => q[a] # q[b]}

Init ==
    /\ input_kind \in {"file", "dir", "missing"}
    /\ discovered \in
         CASE input_kind = "file" -> {<<f>> : f \in FileSet}
           [] input_kind = "dir" -> DistinctSeqs(FileSet, MaxFiles)
           [] OTHER -> {<<>>}
    /\ num_files \in {{}} \cup {{k} : k \in -1..MaxFiles}
    /\ grm_files = <<>>
    /\ i = 0
    /\ attempted = <<>>
    /\ all_results = <<>>
    /\ errors = <<>>
    /\ output \in {[state |-> "absent", rows |-> <<>>],
                   [state |-> "old", rows |-> <<>>]}
    /\ pc = "start"
    /\ DecodeIdle
    /\ EnergyIdle
    /\ FilterIdle
    /\ PeriodIdle

Next == FindFiles \/ ProcessNext \/ SaveResults

Spec == Init /\ [][Next]_vars

\* ------------------------------------------------------------------------
\* Period loop study: the analysis of one decoded record, the lines 259-300
\* of process_grm_file, with the for loop driven over lists of periods in
\* every order, the six fixed periods and others
\* ------------------------------------------------------------------------
MaxPeriods == 2

FixedPeriods == {periods[k] : k \in 1..Len(periods)}
ExtraPeriods == {<<1, 25>>, <<1, 100>>}
StudyPeriods == FixedPeriods \cup ExtraPeriods

\* The record with its second and later samples one step late: a time base
\* that is not uniform
Skewed(rec) ==
    [rec EXCEPT !.time = [k \in 1..Len(rec.time) |->
                              IF k = 1 THEN Zero ELSE Rat(k, 100)]]

AnalysisRecords ==
    {load_binary_grm_file(f.content) : f \in {PulseFile, OtherPulseFile, TinyFile}}
    \cup {Skewed(load_binary_grm_file(PulseFile.content))}

InitAnalysis ==
    /\ \E rec \in AnalysisRecords :
         /\ time = rec.time
         /\ accel_g = rec.accel_g
    /\ energy = NoEnergy
    /\ window = NoWindow
    /\ epc = "start"
    /\ period_list \in DistinctSeqs(StudyPeriods, MaxPeriods)
    /\ period_k = 0
    /\ period_out = NotCalled
    /\ period_results = EmptyDict
    /\ ppc = "loop"
    /\ DecodeIdle
    /\ MainIdle
    /\ FilterIdle

\* lines 288-298: one iteration of the for loop
EvalNext ==
    /\ epc = "done"
    /\ window.exc = ""
    /\ "percent_in_duration" \in DOMAIN window.details
    /\ ppc = "loop"
    /\ period_k < Len(period_list)
    /\ LET T == period_list[period_k + 1]
           r == calculate_period_dependent_duration(time, accel_g, T)
           step == period_step(T, r, period_results)
       IN  /\ period_out' = r
           /\ period_results' = IF step.exc = "" THEN step.results
                                ELSE period_results
           /\ ppc' = IF step.exc = "" THEN "loop" ELSE "raised"
    /\ period_k' = period_k + 1
    /\ UNCHANGED <<period_list, energyVars, decodeVars, mainVars, filterVars>>

\* line 300: the loop is over
ReturnResults ==
    /\ epc = "done"
    /\ ppc = "loop"
    /\ period_k = Len(period_list)
    /\ ppc' = "exit"
    /\ UNCHANGED <<period_list, period_k, period_out, period_results,
                   energyVars, decodeVars, mainVars, filterVars>>

NextAnalysis == Integrate \/ Extract \/ EvalNext \/ ReturnResults

SpecAnalysis == InitAnalysis /\ [][NextAnalysis]_vars

\* ------------------------------------------------------------------------
\* Properties of the decoder (checked under SpecDecode)
\* ------------------------------------------------------------------------
Returned == dpc = "done" /\ ~decoded.is_none
PayloadBytes(buf) == sizeof_float * Len(buf.words) + buf.tail
HeaderNt(buf) == unpack_i(SubSeq(buf.header, 41, 44))

\* C2: every record the decoder returns has len(time) = len(acceleration_g)
\* = sample_count > 0, whatever the header's nt.
C2_RecordNonEmpty ==
    Returned =>
        /\ Len(decoded.time) = Len(decoded.accel_g)
        /\ Len(decoded.time) > 0

\* C4: a buffer shorter than 56 bytes fails with the header failure and gives
\* no record.
C4_ShortHeaderFails ==
    (dpc = "done" /\ buffer.exists /\ Len(buffer.header) < 56) =>
        /\ decoded = NoRecord
        /\ message = "Invalid header size"

C4_Witness ==
    /\ dpc = "done"
    /\ buffer.exists
    /\ Len(buffer.header) = 55
    /\ decoded = NoRecord

\* C5: a full header whose payload holds fewer than 2 * 4 * nt bytes fails
\* with the payload failure and gives no record, shortened or not.
C5_TruncatedPayloadFails ==
    (/\ dpc = "done"
     /\ buffer.exists
     /\ Len(buffer.header) = 56
     /\ PayloadBytes(buffer) < 2 * 4 * HeaderNt(buffer)) =>
        /\ decoded = NoRecord
        /\ message = "Insufficient data"

C5_Witness ==
    /\ dpc = "done"
    /\ Len(buffer.header) = 56
    /\ HeaderNt(buffer) = 2
    /\ Len(buffer.words) = 3
    /\ decoded = NoRecord

EncodeRecord(nt, block0, block1) ==
    [exists |-> TRUE, header |-> MakeHeader(56, pack_i(nt)),
     words |-> block0 \o block1, tail |-> 0]

\* C6: decoding header(nt) ++ block0 ++ block1 gives acceleration_g[i] =
\* block0[i] / 981 and time[i] = i * 0.01, for every nt > 0.
C6_RoundTrip ==
    dpc = "done" =>
        \A nt \in 1..(MaxWords \div 2) :
            \A block0, block1 \in [1..nt -> SampleValues] :
                buffer = EncodeRecord(nt, block0, block1) =>
                    /\ ~decoded.is_none
                    /\ Len(decoded.time) = nt
                    /\ Len(decoded.accel_g) = nt
                    /\ \A k \in 1..nt :
                         /\ decoded.accel_g[k] = RDiv(<<block0[k], 1>>, <<981, 1>>)
                         /\ decoded.time[k] = RMul(<<k - 1, 1>>, <<1, 100>>)

C6_Witness ==
    /\ dpc = "done"
    /\ buffer = EncodeRecord(2, <<100, -300>>, <<0, 100>>)
    /\ decoded.accel_g = <<<<100, 981>>, <<-100, 327>>>>
    /\ decoded.time = <<<<0, 1>>, <<1, 100>>>>

\* ------------------------------------------------------------------------
\* Properties of the integrator and the extractor (checked under SpecEnergy)
\* ------------------------------------------------------------------------
Integrated == epc \in {"integrated", "done"}
Curve == energy.arias_intensity
AllZero(a) == \A k \in 1..Len(a) : a[k] = Zero

\* C7: the energy curve starts at 0 and is non-decreasing, for every
\* non-decreasing time base.
C7_CurveMonotone ==
    Integrated =>
        /\ Curve[1] = Zero
        /\ \A k \in 1..(Len(Curve) - 1) : RLe(Curve[k], Curve[k + 1])

C7_Witness ==
    /\ Integrated
    /\ Len(Curve) >= 3
    /\ RLt(Curve[1], Curve[2])
    /\ Curve[2] = Curve[3]

\* C8: for total energy > 0, 0 <= t5 <= t95 <= time[-1] and duration =
\* t95 - t5 >= 0.
C8_WindowOrdered ==
    (epc = "done" /\ RLt(Zero, Curve[Len(Curve)])) =>
        /\ RLe(Zero, window.t5)
        /\ RLe(window.t5, window.t95)
        /\ RLe(window.t95, time[Len(time)])
        /\ window.duration_5_95 = RSub(window.t95, window.t5)
        /\ RLe(Zero, window.duration_5_95)

C8_Witness ==
    /\ epc = "done"
    /\ RLt(Zero, Curve[Len(Curve)])
    /\ RLt(Zero, window.t5)
    /\ RLt(window.t5, window.t95)
    /\ RLt(window.t95, time[Len(time)])

\* The earliest time at which the piecewise-linear curve through the points
\* (t[k], xp[k]) reaches thr, for xp non-decreasing from 0 to 1 and thr > 0.
FirstCrossing(thr, xp, t) ==
    LET k == CHOOSE m \in 1..Len(xp) :
                 /\ RLe(thr, xp[m])
                 /\ \A h \in 1..(m - 1) : RLt(xp[h], thr)
    IN  RAdd(t[k - 1],
             RMul(RSub(t[k], t[k - 1]),
                  RDiv(RSub(thr, xp[k - 1]), RSub(xp[k], xp[k - 1]))))

Normalized ==
    [k \in 1..Len(Curve) |-> RDiv(Curve[k], Curve[Len(Curve)])]

\* C9: t5 and t95 are the times at which the normalized curve FIRST reaches
\* 0.05 and 0.95, flat stretches at the threshold included.
C9_FirstCrossing ==
    (epc = "done" /\ RLt(Zero, Curve[Len(Curve)])) =>
        /\ window.t5 = FirstCrossing(p05, Normalized, time)
        /\ window.t95 = FirstCrossing(p95, Normalized, time)

\* C10: an all-zero series of any length n > 0 gives t5 = t95 = duration = 0
\* and total Arias Intensity 0, and nothing raises.
C10_AllZeroDegenerate ==
    (Len(accel_g) > 0 /\ AllZero(accel_g) /\ epc # "start") =>
        /\ epc # "raised"
        /\ energy.exc = ""
        /\ energy.total_arias_intensity = Zero
        /\ epc = "done" =>
             /\ window.exc = ""
             /\ window.t5 = Zero
             /\ window.t95 = Zero
             /\ window.duration_5_95 = Zero

C10_Witness ==
    /\ epc = "done"
    /\ Len(accel_g) = 1
    /\ AllZero(accel_g)
    /\ window.duration_5_95 = Zero

\* ------------------------------------------------------------------------
\* Properties of the batch run (checked under Spec)
\* ------------------------------------------------------------------------
\* The outcome of process_grm_file on each file of the study, tabulated once
Outcome == [file \in FileSet |-> process_grm_file(file)]

Succeeds(file) ==
    /\ Outcome[file].exc = ""
    /\ ~Outcome[file].is_none

\* A file that decodes to a non-empty record whose samples are all zero
ZeroEnergyFile(file) ==
    /\ ~load_binary_grm_file(file.content).is_none
    /\ Len(load_binary_grm_file(file.content).accel_g) > 0
    /\ AllZero(load_binary_grm_file(file.content).accel_g)

\* C1: a decodable file whose samples are all zero is analysed without an
\* exception and appears in the batch output with duration, t5, t95 and
\* total Arias Intensity 0.
C1_ZeroEnergyReported ==
    \A j \in 1..Len(attempted) :
        ZeroEnergyFile(attempted[j]) =>
            \E r \in 1..Len(all_results) :
                /\ all_results[r]["filename"] = basename(attempted[j].filename)
                /\ all_results[r]["duration_5_95_unfiltered_s"] = Zero
                /\ all_results[r]["t5_unfiltered_s"] = Zero
                /\ all_results[r]["t95_unfiltered_s"] = Zero
                /\ all_results[r]["arias_total_ms"] = Zero

\* C3: one bad file never aborts the batch: main attempts every file of the
\* list, and each file whose analysis succeeds contributes exactly one row.
C3_BatchNeverAborts ==
    /\ pc \in {"loop", "exit"} => attempted = SubSeq(grm_files, 1, i)
    /\ pc = "exit" => attempted = grm_files
    /\ Len(all_results) =
           Cardinality({j \in 1..Len(attempted) : Succeeds(attempted[j])})
    /\ \A j \in 1..Len(attempted) :
           Succeeds(attempted[j]) =>
               Cardinality({r \in 1..Len(all_results) :
                   all_results[r] = Outcome[attempted[j]].results}) = 1

C3_Witness ==
    /\ pc = "exit"
    /\ Len(attempted) = 2
    /\ ~Succeeds(attempted[1])
    /\ errors = <<attempted[1].filename>>
    /\ Succeeds(attempted[2])
    /\ Len(all_results) = 1

\* ------------------------------------------------------------------------
\* Properties of the filter designer (checked under SpecFilter)
\* ------------------------------------------------------------------------
GivenBandwidth ==
    IF designer_args.bandwidth_factor = {} THEN <<1, 5>>
    ELSE CHOOSE b \in designer_args.bandwidth_factor : TRUE
RawLow == RMul(designer_args.f_center, RSub(One, GivenBandwidth))
RawHigh == RMul(designer_args.f_center, RAdd(One, GivenBandwidth))
NyquistClamp == RMul(<<19, 20>>, RDiv(designer_args.fs.value, <<2, 1>>))
ClampedLow == IF RLe(RawLow, <<1, 100>>) THEN <<1, 100>> ELSE RawLow
ClampedHigh == IF RLe(NyquistClamp, RawHigh) THEN NyquistClamp ELSE RawHigh

\* C11: the designer's cutoffs are low = max(center * (1 - bandwidth_factor),
\* 0.01) and high = min(center * (1 + bandwidth_factor), 0.95 * fs / 2), the
\* bandwidth factor being 0.2 when left out; 1.0 Hz at 100 Hz sampling gives
\* 0.8 Hz and 1.2 Hz, both below the 47.5 Hz clamp.
C11_Cutoffs ==
    /\ fpc = "designed" =>
         /\ designed.low_freq_hz = ClampedLow
         /\ designed.high_freq_hz = ClampedHigh
    /\ (/\ fpc \in {"designed", "raised"}
        /\ designer_args = [f_center |-> One,
                            fs |-> [kind |-> "finite", value |-> <<100, 1>>],
                            bandwidth_factor |-> {}]) =>
         /\ fpc = "designed"
         /\ designed.low_freq_hz = <<4, 5>>
         /\ designed.high_freq_hz = <<6, 5>>
         /\ RLt(designed.high_freq_hz, <<95, 2>>)

C11_Witness ==
    /\ fpc = "designed"
    /\ designer_args.f_center = <<1, 100>>
    /\ designer_args.bandwidth_factor = {}
    /\ designed.low_freq_hz = <<1, 100>>
    /\ designed.high_freq_hz = <<3, 250>>

\* C12: the designer fails, returning no filter spec, whenever the clamped
\* cutoffs satisfy low >= high.
C12_EmptyBandFails ==
    (/\ fpc \in {"designed", "raised"}
     /\ designer_args.fs.kind = "finite"
     /\ RLe(ClampedHigh, ClampedLow)) =>
        /\ fpc = "raised"
        /\ designed.exc = "ValueError"
        /\ DOMAIN designed = {"exc"}

C12_Witness ==
    /\ fpc = "raised"
    /\ designer_args.f_center = <<60, 1>>
    /\ designer_args.fs.value = <<100, 1>>
    /\ designer_args.bandwidth_factor = {<<1, 5>>}
    /\ ClampedLow = <<48, 1>>
    /\ ClampedHigh = <<95, 2>>

\* C13: every filter spec the designer returns satisfies 0 < low < high <
\* nyquist.
C13_BandInsideNyquist ==
    fpc = "designed" =>
        /\ designer_args.fs.kind = "finite"
        /\ RLt(Zero, designed.low_freq_hz)
        /\ RLt(designed.low_freq_hz, designed.high_freq_hz)
        /\ RLt(designed.high_freq_hz, RDiv(designer_args.fs.value, <<2, 1>>))

C13_Witness ==
    /\ fpc = "designed"
    /\ designer_args.f_center = <<10, 1>>
    /\ designer_args.fs.value = <<20, 1>>
    /\ designed.low_freq_hz = <<8, 1>>
    /\ designed.high_freq_hz = <<19, 2>>

\* ------------------------------------------------------------------------
\* Properties of the rows (checked under Spec)
\* ------------------------------------------------------------------------
PeriodLabels == <<"0.1", "0.2", "0.5", "1.0", "2.0", "3.0">>
IndependentFields ==
    {"filename", "peak_accel_g", "total_duration_s", "arias_total_ms",
     "duration_5_95_unfiltered_s", "t5_unfiltered_s", "t95_unfiltered_s"}
FieldsOfPeriod(label) ==
    {"duration_5_95_T" \o label \o "s", "t5_T" \o label \o "s",
     "t95_T" \o label \o "s", "arias_filtered_T" \o label}
ExpectedFields ==
    IndependentFields
    \cup UNION {FieldsOfPeriod(PeriodLabels[k]) : k \in 1..Len(PeriodLabels)}
RowsHandedOver ==
    {all_results[r] : r \in 1..Len(all_results)}
    \cup {output.rows[r] : r \in 1..Len(output.rows)}

\* C14: every result record holds the seven period-independent fields and
\* four fields for each of the periods 0.1, 0.2, 0.5, 1.0, 2.0, 3.0 whose
\* names embed the period: 31 pairwise distinct names, and no record handed
\* to the CSV writer is partial.
C14_RowHas31Fields ==
    \A row \in RowsHandedOver :
        /\ DOMAIN row = ExpectedFields
        /\ Cardinality(DOMAIN row) = 31
        /\ \A k \in 1..Len(PeriodLabels) :
               /\ FieldsOfPeriod(PeriodLabels[k]) \subseteq DOMAIN row
               /\ Cardinality(FieldsOfPeriod(PeriodLabels[k])) = 4

C14_Witness ==
    /\ pc = "exit"
    /\ output.state = "written"
    /\ Len(output.rows) = 2
    /\ Cardinality(DOMAIN output.rows[1]) = 31
    /\ "t95_T0.5s" \in DOMAIN output.rows[2]

\* The files of a list whose analysis succeeds, in the order of the list
RECURSIVE Survivors(_, _)
Survivors(files, k) ==
    IF k = 0 THEN <<>>
    ELSE IF Succeeds(files[k])
        THEN Append(Survivors(files, k - 1), files[k])
    ELSE Survivors(files, k - 1)

\* C15: the rows handed to the CSV writer are in input order: their
\* filenames are the input list with the failed files removed, nothing
\* reordered and nothing repeated.
C15_RowsInInputOrder ==
    LET kept == Survivors(attempted, Len(attempted))
    IN  /\ Len(all_results) = Len(kept)
        /\ \A r \in 1..Len(kept) :
               /\ all_results[r]["filename"] = basename(kept[r].filename)
               /\ all_results[r] = Outcome[kept[r]].results
        /\ output.state = "written" =>
               /\ attempted = grm_files
               /\ output.rows = all_results

C15_Witness ==
    /\ pc = "exit"
    /\ output.state = "written"
    /\ attempted = <<OtherPulseFile, PulseFile>>
    /\ Len(output.rows) = 2
    /\ output.rows[1] = Outcome[OtherPulseFile].results
    /\ output.rows[2] = Outcome[PulseFile].results
    /\ output.rows[1] # output.rows[2]

\* ------------------------------------------------------------------------
\* The end-to-end pulse scenario (checked under SpecPulse)
\* ------------------------------------------------------------------------
ScenarioDone ==
    /\ epc = "done"
    /\ Len(time) = 1000
    /\ \A k \in 1..1000 : 100 * time[k][1] = (k - 1) * time[k][2]
    /\ \A k \in 1..1000 :
           accel_g[k] = IF k - 1 >= 450 /\ k - 1 <= 550 THEN One ELSE Zero

\* C17: for the 1000-sample 100 Hz record that is 1 g on the sample indices
\* 450 to 550, the unfiltered 5%-95% duration is shorter than the 10 s
\* record and the midpoint (t5 + t95) / 2 lies inside [4.5 s, 5.5 s].
C17_PulseScenario ==
    (epc \in {"raised", "done"} /\ Len(time) = 1000) =>
        /\ ScenarioDone
        /\ window.exc = ""
        /\ RLt(Zero, window.duration_5_95)
        /\ RLt(window.duration_5_95, <<10, 1>>)
        /\ RLe(<<9, 2>>, RMul(<<1, 2>>, RAdd(window.t5, window.t95)))
        /\ RLe(RMul(<<1, 2>>, RAdd(window.t5, window.t95)), <<11, 2>>)

C17_Witness ==
    /\ ScenarioDone
    /\ window.t5 = <<9091, 2000>>
    /\ window.t95 = <<10909, 2000>>
    /\ window.duration_5_95 = <<909, 1000>>

\* ------------------------------------------------------------------------
\* Failure containment of the decoder (checked under SpecDecode)
\* ------------------------------------------------------------------------
\* C18: the decoder never raises to its caller: for every input it returns
\* a record or the no-record value, and for the no-record value
\* process_grm_file returns no result without raising.
C18_DecoderNeverRaises ==
    /\ dpc \in {"done", "processed"} =>
         /\ decoded.is_none \in BOOLEAN
         /\ message # "" <=> decoded = NoRecord
         /\ (\/ ~buffer.exists
             \/ Len(buffer.header) < 56
             \/ PayloadBytes(buffer) < 8 * HeaderNt(buffer)
             \/ HeaderNt(buffer) < 0) => decoded = NoRecord
    /\ (dpc = "processed" /\ decoded = NoRecord) =>
         /\ processed.exc = ""
         /\ processed.is_none
         /\ processed.results = <<>>

C18_Witness ==
    /\ dpc = "processed"
    /\ ~buffer.exists
    /\ message = "FileNotFoundError"
    /\ decoded = NoRecord
    /\ processed.exc = ""
    /\ processed.is_none

\* The buffer with the second block of nt samples replaced by block1
WithSecondBlock(buf, nt, block1) ==
    [buf EXCEPT !.words = SubSeq(buf.words, 1, nt) \o block1
                          \o SubSeq(buf.words, 2 * nt + 1, Len(buf.words))]

\* C19: component 1 never influences the decoded record: buffers with the
\* same header and first block that differ only in the second block decode
\* to the same time and acceleration_g.
C19_SecondBlockIgnored ==
    (/\ dpc \in {"done", "processed"}
     /\ buffer.exists
     /\ Len(buffer.header) = 56
     /\ HeaderNt(buffer) > 0
     /\ Len(buffer.words) >= 2 * HeaderNt(buffer)) =>
        /\ ~decoded.is_none
        /\ Len(decoded.accel_g) = HeaderNt(buffer)
        /\ \A block1 \in [1..HeaderNt(buffer) -> SampleValues] :
               /\ load_binary_grm_file(
                      WithSecondBlock(buffer, HeaderNt(buffer), block1)).time
                  = decoded.time
               /\ load_binary_grm_file(
                      WithSecondBlock(buffer, HeaderNt(buffer), block1)).accel_g
                  = decoded.accel_g

C19_Witness ==
    /\ dpc = "done"
    /\ Len(buffer.header) = 56
    /\ HeaderNt(buffer) = 2
    /\ buffer.words = <<100, -300, 0, 100>>
    /\ decoded.accel_g = <<<<100, 981>>, <<-100, 327>>>>

\* ------------------------------------------------------------------------
\* The trapezoidal sum (checked under SpecEnergy)
\* ------------------------------------------------------------------------
\* f[k] = (acceleration_g[k] * 9.81)^2
SquaredMs2(k) ==
    RMul(RMul(accel_g[k], <<981, 100>>), RMul(accel_g[k], <<981, 100>>))

\* sum over m < k of 0.5 * (f[m] + f[m+1]) * (time[m+1] - time[m])
RECURSIVE TrapezoidSum(_)
TrapezoidSum(k) ==
    IF k <= 1 THEN Zero
    ELSE RAdd(TrapezoidSum(k - 1),
              RMul(RMul(<<1, 2>>, RAdd(SquaredMs2(k - 1), SquaredMs2(k))),
                   RSub(time[k], time[k - 1])))

\* C20: the integrator's curve is the scaled trapezoidal sum:
\* cumulative_energy[k] = (pi / (2 * 9.81)) * sum over m < k of
\* 0.5 * (f[m] + f[m+1]) * (time[m+1] - time[m]), on uniform and non-uniform
\* time bases alike.
C20_TrapezoidalSum ==
    epc = "integrated" =>
        /\ Len(Curve) = Len(accel_g)
        /\ \A k \in 1..Len(Curve) :
               Curve[k] = RMul(<<50, 981>>, TrapezoidSum(k))

C20_Witness ==
    /\ epc = "integrated"
    /\ Len(time) = 4
    /\ RSub(time[2], time[1]) = <<1, 100>>
    /\ RSub(time[3], time[2]) = <<1, 50>>
    /\ RLt(Zero, Curve[2])
    /\ RLt(Curve[2], Curve[3])
    /\ RLt(Curve[3], Curve[4])

\* ------------------------------------------------------------------------
\* The file limit, negative sample counts and the CSV (Spec, SpecDecode)
\* ------------------------------------------------------------------------
\* C27: with -n/--num_files k, at most k files are processed, for every
\* integer k >= 0.
C27_AtMostKFiles ==
    \A k \in num_files :
        k >= 0 => /\ Len(attempted) <= k
                  /\ pc \in {"loop", "exit"} => Len(grm_files) <= k

\* C28: a header whose sample count nt is negative never yields a record,
\* whatever the number of payload bytes.
C28_NegativeNtNoRecord ==
    (/\ dpc \in {"done", "processed"}
     /\ buffer.exists
     /\ Len(buffer.header) = 56
     /\ HeaderNt(buffer) < 0) =>
        /\ decoded = NoRecord
        /\ message = "read length must be non-negative or -1"

C28_Witness ==
    /\ dpc = "done"
    /\ Len(buffer.header) = 56
    /\ HeaderNt(buffer) = -1
    /\ Len(buffer.words) = 4
    /\ decoded = NoRecord

\* C29: the output CSV is written if and only if at least one file of the
\* batch produced a result record; when every file fails no output is
\* written and an existing output file is left untouched.
C29_CsvWrittenIffRows ==
    /\ [](pc = "exit" /\ grm_files # <<>> =>
            (output.state = "written"
                <=> \E j \in 1..Len(attempted) : Succeeds(attempted[j])))
    /\ [](output.state = "written" => pc = "exit" /\ output.rows # <<>>)
    /\ [][output' # output =>
            /\ all_results # <<>>
            /\ output' = [state |-> "written", rows |-> all_results]]_vars

C29_Witness ==
    /\ pc = "exit"
    /\ Len(attempted) = 2
    /\ attempted = grm_files
    /\ Len(errors) = 1
    /\ all_results = <<>>
    /\ output = [state |-> "old", rows |-> <<>>]

\* ------------------------------------------------------------------------
\* Independence of the rows (checked under Spec)
\* ------------------------------------------------------------------------
\* The rows main collects for the batch made of the one file
SingleFileBatchRows(file) ==
    IF Succeeds(file) THEN <<Outcome[file].results>> ELSE <<>>

\* C23: a file's result depends only on that file: the row a batch holds
\* for it is the row of the batch made of that file alone, whatever files
\* precede it and whether or not they failed.
C23_RowDependsOnFileOnly ==
    LET kept == Survivors(attempted, Len(attempted))
    IN  \A r \in 1..Len(all_results) :
            /\ r <= Len(kept)
            /\ <<all_results[r]>> = SingleFileBatchRows(kept[r])

C23_Witness ==
    /\ pc = "exit"
    /\ attempted = <<ZeroFile, PulseFile>>
    /\ errors = <<ZeroFile.filename>>
    /\ all_results = SingleFileBatchRows(PulseFile)
    /\ Len(all_results) = 1

\* The decoded record of each file of the study and the unfiltered curve
\* and window computed from it, tabulated once
Unfiltered ==
    [file \in {f \in FileSet : Succeeds(f)} |->
        [time |-> load_binary_grm_file(file.content).time,
         accel_g |-> load_binary_grm_file(file.content).accel_g,
         curve |-> calculate_arias_intensity_detailed(
                       load_binary_grm_file(file.content).time,
                       load_binary_grm_file(file.content).accel_g).arias_intensity,
         window |-> find_5_95_duration_detailed(
                        load_binary_grm_file(file.content).time,
                        calculate_arias_intensity_detailed(
                            load_binary_grm_file(file.content).time,
                            load_binary_grm_file(file.content).accel_g
                        ).arias_intensity)]]

RowIsUnfiltered(row, u) ==
    /\ \E k \in 1..Len(u.accel_g) : row["peak_accel_g"] = RAbs(u.accel_g[k])
    /\ \A k \in 1..Len(u.accel_g) : RLe(RAbs(u.accel_g[k]), row["peak_accel_g"])
    /\ row["total_duration_s"] = RSub(u.time[Len(u.time)], u.time[1])
    /\ row["arias_total_ms"] = u.curve[Len(u.curve)]
    /\ row["duration_5_95_unfiltered_s"] = u.window.duration_5_95
    /\ row["t5_unfiltered_s"] = u.window.t5
    /\ row["t95_unfiltered_s"] = u.window.t95

\* C26: in every returned per-file record the period-independent values come
\* from the unfiltered record: peak = max |acceleration_g|, total duration =
\* time[-1] - time[0], total Arias Intensity = last value of the unfiltered
\* curve, and duration, t5, t95 are the extractor's output on that curve.
C26_PeriodIndependentFields ==
    LET kept == Survivors(attempted, Len(attempted))
    IN  \A r \in 1..Len(all_results) :
            /\ r <= Len(kept)
            /\ RowIsUnfiltered(all_results[r], Unfiltered[kept[r]])

C26_Witness ==
    /\ pc = "exit"
    /\ attempted = <<OtherPulseFile>>
    /\ Len(all_results) = 1
    /\ all_results[1]["peak_accel_g"] = <<100, 327>>
    /\ all_results[1]["total_duration_s"] = <<27, 100>>
    /\ all_results[1]["t5_unfiltered_s"] = <<43, 1000>>

\* ------------------------------------------------------------------------
\* Properties of the period loop (checked under SpecAnalysis)
\* ------------------------------------------------------------------------
\* The periods evaluated so far whose call returned
CallReturned(j) == j < period_k \/ (j = period_k /\ ppc # "raised")

\* The pipeline evaluated for the one period on the record, nothing else
\* having been evaluated, tabulated once for the records of the study
Alone ==
    [rec \in AnalysisRecords |->
        [T \in FixedPeriods |->
            calculate_period_dependent_duration(rec.time, rec.accel_g, T)]]
TheRecord ==
    CHOOSE rec \in AnalysisRecords : rec.time = time /\ rec.accel_g = accel_g

HoldsValue(key, value) ==
    key \in DOMAIN period_results /\ period_results[key] = value

\* C21: the period computations are order-independent: the four values
\* recorded for a fixed period T are those of T evaluated alone, whichever
\* order the fixed periods are evaluated in and whichever others are.
C21_OrderIndependent ==
    (\A j \in 1..Len(period_list) : period_list[j] \in FixedPeriods)
    => \A j \in 1..period_k :
           CallReturned(j) =>
               LET T == period_list[j]
                   label == format_1f(T)
                   alone == Alone[TheRecord][T]
               IN  /\ alone.exc = ""
                   /\ HoldsValue("duration_5_95_T" \o label \o "s",
                                 alone.duration_5_95)
                   /\ HoldsValue("t5_T" \o label \o "s", alone.t5)
                   /\ HoldsValue("t95_T" \o label \o "s", alone.t95)
                   /\ HoldsValue("arias_filtered_T" \o label, alone.arias_f)

C21_Witness ==
    /\ ppc = "exit"
    /\ period_list = <<<<2, 1>>, <<1, 10>>>>
    /\ period_k = 2
    /\ DOMAIN period_results = FieldsOfPeriod("2.0") \cup FieldsOfPeriod("0.1")
    /\ period_results["arias_filtered_T2.0"] # period_results["arias_filtered_T0.1"]

\* C22: the record is immutable through analysis: no step of the
\* integrator, the extractor or a period computation changes the record's
\* time or acceleration_g.
C22_RecordImmutable == [][time' = time /\ accel_g' = accel_g]_vars

C22_Witness ==
    /\ ppc = "exit"
    /\ period_k = 2
    /\ epc = "done"
    /\ time = load_binary_grm_file(OtherPulseFile.content).time
    /\ accel_g = load_binary_grm_file(OtherPulseFile.content).accel_g

\* 1 / mean(diff(time)) and the band the designer is to make of it
RECURSIVE DiffSum(_, _, _)
DiffSum(t, lo, hi) ==
    IF lo >= hi THEN Zero
    ELSE IF lo + 1 = hi THEN RSub(t[hi], t[lo])
    ELSE RAdd(DiffSum(t, lo, (lo + hi) \div 2),
              DiffSum(t, (lo + hi) \div 2, hi))
MeanRate(t) == RDiv(One, RDiv(DiffSum(t, 1, Len(t)), <<Len(t) - 1, 1>>))
BandLow(T) == RMax(RMul(RDiv(One, T), <<4, 5>>), <<1, 100>>)
BandHigh(T, t) ==
    RMin(RMul(RDiv(One, T), <<6, 5>>),
         RMul(RDiv(MeanRate(t), <<2, 1>>), <<19, 20>>))
LastPeriod == period_list[period_k]

\* C24 as stated: every positive period is accepted, and the filter is
\* designed with fs = 1 / mean(diff(time)), center = 1 / period and the
\* bandwidth factor 0.2.
C24_AnyPositivePeriodAccepted ==
    (period_k >= 1 /\ Len(accel_g) > sosfiltfilt_padlen)
    => /\ period_out.exc = ""
       /\ period_out.filter_info.center_freq_hz = RDiv(One, LastPeriod)
       /\ period_out.filter_info.low_freq_hz = BandLow(LastPeriod)
       /\ period_out.filter_info.high_freq_hz = BandHigh(LastPeriod, time)

\* C24 amended: for every positive period, fixed or not, the filter is
\* designed with fs = 1 / mean(diff(time)), center = 1 / period and the
\* bandwidth factor 0.2; the call returns that filter when the clamped band
\* has low < high and the record is longer than the filter's padding, and
\* it raises ValueError when the clamped band is empty.
C24_DesignedFromRecordAndPeriod ==
    period_k >= 1
    => /\ period_out.exc = ""
          => /\ period_out.filter_info.center_freq_hz = RDiv(One, LastPeriod)
             /\ period_out.filter_info.low_freq_hz = BandLow(LastPeriod)
             /\ period_out.filter_info.high_freq_hz = BandHigh(LastPeriod, time)
             /\ period_out.filter_info.relative_bandwidth = <<2, 5>>
       /\ ~RLt(BandLow(LastPeriod), BandHigh(LastPeriod, time))
          => period_out.exc = "ValueError"
       /\ (/\ RLt(BandLow(LastPeriod), BandHigh(LastPeriod, time))
           /\ Len(accel_g) > sosfiltfilt_padlen)
          => period_out.exc = ""

C24_Witness ==
    /\ period_k = 2
    /\ period_list = <<<<1, 25>>, <<1, 100>>>>
    /\ time[2] = <<1, 50>>
    /\ "t5_T0.0s" \in DOMAIN period_results
    /\ period_out.exc = "ValueError"
    /\ ppc = "raised"

\* The energy curve of the filtered acceleration over the record's time base
FilteredCurve ==
    calculate_arias_intensity_detailed(
        time, sosfiltfilt(period_out.filter_info, accel_g)).arias_intensity

ComesFrom(r, curve, w) ==
    /\ r.arias_f = curve[Len(curve)]
    /\ r.duration_5_95 = w.duration_5_95
    /\ r.t5 = w.t5
    /\ r.t95 = w.t95

\* C25: what a returned period call reports comes from one curve, the one
\* integrated from the filtered acceleration over the record's time base:
\* filtered_total_energy is its last value and (duration, t5, t95) is the
\* extractor's output on that curve.
C25_WindowAndEnergyFromFilteredCurve ==
    (period_k >= 1 /\ period_out.exc = "")
    => LET curve == FilteredCurve
       IN  ComesFrom(period_out, curve,
                     find_5_95_duration_detailed(time, curve))

C25_Witness ==
    /\ period_k >= 1
    /\ period_out.exc = ""
    /\ period_out.t5 # window.t5
    /\ period_out.t95 # window.t95
    /\ period_out.arias_f # energy.total_arias_intensity
    /\ RLt(Zero, period_out.arias_f)

====
